---- MODULE Spec2Model ----
(***************************************************************************)
(* CryptoBot (src/cryptoBot1.py): a sequential poll -> archive -> store -> *)
(* analyse -> render -> notify loop.                                       *)
(*                                                                         *)
(* Three specifications share this module:                                 *)
(*   Spec        the scheduler loop of main() and the pipeline of          *)
(*               process_crypto_data(), one action per called function;    *)
(*   SpecSend    send_message_to_telegram() applied to bounded inputs;     *)
(*   SpecAnalyze analyze_market_data()'s 24h rankings applied to bounded   *)
(*               snapshots.                                                *)
(*                                                                         *)
(* A text is modelled by the positions it holds of the string it was cut   *)
(* from: [src, lo, hi] is characters lo .. hi-1 of the string named src.   *)
(* Python slicing acts on the positions exactly as it acts on the string.  *)
(***************************************************************************)
EXTENDS Integers, Sequences, FiniteSets, TLC

VARIABLES
    pc,               \* position of main() / process_crypto_data()
    firstRun,         \* TRUE while in the immediate execution of line 518
    cycle,            \* number of process_crypto_data() calls started
    now,              \* last reading of datetime.now()
    data,             \* return value of get_crypto_data() (None or a list)
    df,               \* the DataFrame of convert_to_dataframe()
    analysis,         \* the dict returned by analyze_market_data()
    chart_path,       \* return value of generate_charts()
    alerts_msg,       \* "\n".join(alerts), as a text
    full_report,      \* the combined report, as a text
    files,            \* raw archive files in DATA_DIR (by timestamp)
    crypto_data,      \* committed rows of table crypto_data
    analysis_results, \* committed rows of table analysis_results
    outbox,           \* transport calls (requests.post) made in this cycle
    sendResult,       \* return value of the last send_message_to_telegram()
    errlog,           \* logger.error() records of this cycle
    phases,           \* pipeline steps completed in this cycle, in order
    faults,           \* environment faults injected in this cycle
    waited            \* time.sleep() durations completed since the last
                      \* process_crypto_data() call ended, in order

vars == <<pc, firstRun, cycle, now, data, df, analysis, chart_path, alerts_msg,
          full_report, files, crypto_data, analysis_results, outbox, sendResult,
          errlog, phases, faults, waited>>

\* Python's None and a value that is not None.
None == <<>>

Some(x) == <<x>>

Val(o) == o[1]

Min(a, b) == IF a < b THEN a ELSE b

Abs(x) == IF x < 0 THEN -x ELSE x

CeilDiv(a, b) == (a + b - 1) \div b

(***************************************************************************)
(* Program constants                                                       *)
(***************************************************************************)
CAPTION_LIMIT == 1024

TEXT_LIMIT == 4000

TOP_K == 5

ALERT_THRESHOLD == 10

\* FETCH_INTERVAL, with its default
FETCH_INTERVAL == 3600

\* time.sleep(60) of the loop's exception handler
BACKOFF == 60

(***************************************************************************)
(* Bounds of the model                                                     *)
(***************************************************************************)
MaxChunks == 3

MaxRaiseAt == 2

MaxCoins == 2

MaxCycles == 2

MaxAttempts == 3

MaxRatioCoins == 3

MaxClock == 2

MaxAssets == 11

(***************************************************************************)
(* Texts and Python slicing                                                *)
(***************************************************************************)
Text(src, n) == [src |-> src, lo |-> 0, hi |-> n]

TextLen(m) == m.hi - m.lo

\* message[a:b] for 0 <= a <= b
Slice(m, a, b) ==
    [src |-> m.src, lo |-> Min(m.lo + a, m.hi), hi |-> Min(m.lo + b, m.hi)]

(***************************************************************************)
(* send_message_to_telegram (src/cryptoBot1.py:397-442)                    *)
(*                                                                         *)
(* raiseAt numbers the transport call that raises (0: none raises).  A     *)
(* call is the record of one requests.post: its endpoint, the text it      *)
(* carries and whether it raised.                                          *)
(***************************************************************************)
Call(api, body, raised) == [api |-> api, body |-> body, raised |-> raised]

\* chunks = [message[i:i+4000] for i in range(0, len(message), 4000)], with a
\* floor division: the last partial chunk is lost.
Chunks_DropsTail(m) ==
    [k \in 1..(TextLen(m) \div TEXT_LIMIT) |->
        Slice(m, (k - 1) * TEXT_LIMIT, k * TEXT_LIMIT)]

\* chunks = [message[i:i+4000] for i in range(0, len(message), 4000)]
Chunks(m) ==
    [k \in 1..CeilDiv(TextLen(m), TEXT_LIMIT) |->
        Slice(m, (k - 1) * TEXT_LIMIT, k * TEXT_LIMIT)]

\* The else branch with each post in a try of its own: the loop goes on
\* after a post that raised.
SendText_ContinuesAfterRaise(m, raiseAt) ==
    LET bodies == IF TextLen(m) > TEXT_LIMIT THEN Chunks(m) ELSE <<m>>
        n      == Len(bodies)
    IN  [calls |-> [i \in 1..n |-> Call("sendMessage", bodies[i], i = raiseAt)],
         ok    |-> raiseAt \notin 1..n]

\* The else branch (lines 418-436): the text alone, chunked when over 4000.
\* The loop stops at the first post that raises (the except of line 440).
SendText(m, raiseAt) ==
    LET bodies == IF TextLen(m) > TEXT_LIMIT THEN Chunks(m) ELSE <<m>>
        n      == Len(bodies)
        hit    == raiseAt \in 1..n
        k      == IF hit THEN raiseAt ELSE n
    IN  [calls |-> [i \in 1..k |-> Call("sendMessage", bodies[i], i = raiseAt)],
         ok    |-> ~hit]

\* message[:1024]
Caption(m) == Slice(m, 0, CAPTION_LIMIT)

\* message[1025:], one character lost at the cut.
Remainder_SkipsOne(m) == Slice(m, CAPTION_LIMIT + 1, TextLen(m))

\* message[1024:]
Remainder(m) == Slice(m, CAPTION_LIMIT, TextLen(m))

\* photo is None or a path, which is "missing" or "exists" (line 400).
\* Line 417 calls send_message_to_telegram(message[1024:]) and drops its
\* return value: the nested call catches its own exception.
send_message_to_telegram(m, photo, raiseAt) ==
    IF photo # None /\ Val(photo) = "exists"
    THEN LET first == Call("sendPhoto", Caption(m), raiseAt = 1)
         IN  IF raiseAt = 1
             THEN [calls |-> <<first>>, ok |-> FALSE]
             ELSE IF TextLen(m) > CAPTION_LIMIT
                  THEN [calls |-> <<first>> \o
                                  SendText(Remainder(m),
                                           IF raiseAt = 0 THEN 0 ELSE raiseAt - 1).calls,
                        ok    |-> TRUE]
                  ELSE [calls |-> <<first>>, ok |-> TRUE]
    ELSE SendText(m, raiseAt)

(***************************************************************************)
(* Numbers: the float columns are modelled as exact fractions <<n, d>>,    *)
(* d > 0, compared by cross-multiplication.                                *)
(***************************************************************************)
Frac(n, d) == <<n, d>>

Whole(n) == <<n, 1>>

FracLess(a, b) == a[1] * b[2] < b[1] * a[2]

FracEq(a, b) == a[1] * b[2] = b[1] * a[2]

(***************************************************************************)
(* convert_to_dataframe (src/cryptoBot1.py:148-171)                        *)
(*                                                                         *)
(* An asset object of the payload is a record of the fields the program    *)
(* reads, plus shape: "ok", "no_price" (quote.USD.price is missing) or     *)
(* "no_symbol" (symbol is missing).                                        *)
(***************************************************************************)
WellFormed(coin) == coin.shape = "ok"

\* Line 166 without its condition: the division alone.
volume_to_market_cap_Unguarded(coin) == Frac(coin.volume_24h, coin.market_cap)

\* Line 166: the ratio, guarded by market_cap > 0.
volume_to_market_cap(coin) ==
    IF coin.market_cap > 0 THEN Frac(coin.volume_24h, coin.market_cap) ELSE Whole(0)

\* One row of processed_data (lines 156-168).
coin_data(coin) ==
    [id |-> coin.id, symbol |-> coin.symbol, price |-> coin.price,
     market_cap |-> coin.market_cap, volume_24h |-> coin.volume_24h,
     percent_change_1h |-> coin.percent_change_1h,
     percent_change_24h |-> coin.percent_change_24h,
     percent_change_7d |-> coin.percent_change_7d,
     volume_to_market_cap |-> volume_to_market_cap(coin)]

\* A dictionary access on a malformed asset raises KeyError out of the
\* function: there is no try around the loop.
ConvertRaises(d) == \E i \in 1..Len(d) : ~WellFormed(d[i])

\* Lines 155-170: one row per asset, in payload order.
RECURSIVE convert_to_dataframe(_)
convert_to_dataframe(d) ==
    IF d = <<>> THEN <<>>
    ELSE <<coin_data(Head(d))>> \o convert_to_dataframe(Tail(d))

(***************************************************************************)
(* DataFrame.nlargest / nsmallest (keep = 'first'): the n rows of largest  *)
(* (smallest) key, ordered by key, rows of equal key in their original     *)
(* order.  keys[i] is the key of row i.                                    *)
(***************************************************************************)
Pct24(row) == Whole(row.percent_change_24h)

Liquidity(row) == row.volume_to_market_cap

Volatility(row) == row.volatility

Dominance(row) == row.market_dominance

MarketCap(row) == Whole(row.market_cap)

TrendPair(row) == <<row.percent_change_24h, row.percent_change_7d>>

\* row[col], for the columns the analysis ranks by or reports.
Cell(row, col) ==
    CASE col = "percent_change_24h"   -> Pct24(row)
      [] col = "volume_to_market_cap" -> Liquidity(row)
      [] col = "volatility"           -> Volatility(row)
      [] col = "market_dominance"     -> Dominance(row)
      [] col = "market_cap"           -> MarketCap(row)
      [] col = "trend"                -> TrendPair(row)

\* df[col] as a list
RECURSIVE Column(_, _)
Column(rows, col) ==
    IF rows = <<>> THEN <<>>
    ELSE <<Cell(Head(rows), col)>> \o Column(Tail(rows), col)

\* The first row, among those left, that no other row left precedes in the
\* descending order.
FirstLargest(keys, left) ==
    CHOOSE i \in left : \A j \in left :
        \/ FracLess(keys[j], keys[i])
        \/ FracEq(keys[i], keys[j]) /\ i <= j

FirstSmallest(keys, left) ==
    CHOOSE i \in left : \A j \in left :
        \/ FracLess(keys[i], keys[j])
        \/ FracEq(keys[i], keys[j]) /\ i <= j

RECURSIVE PickLargest(_, _, _)
PickLargest(keys, left, n) ==
    IF n = 0 \/ left = {} THEN <<>>
    ELSE LET i == FirstLargest(keys, left)
         IN  <<i>> \o PickLargest(keys, left \ {i}, n - 1)

RECURSIVE PickSmallest(_, _, _)
PickSmallest(keys, left, n) ==
    IF n = 0 \/ left = {} THEN <<>>
    ELSE LET i == FirstSmallest(keys, left)
         IN  <<i>> \o PickSmallest(keys, left \ {i}, n - 1)

\* The rows at the positions idx, in that order.
RECURSIVE Take(_, _)
Take(rows, idx) ==
    IF idx = <<>> THEN <<>> ELSE <<rows[Head(idx)]>> \o Take(rows, Tail(idx))

nlargest(n, rows, col) ==
    Take(rows, PickLargest(Column(rows, col), 1..Len(rows), n))

nsmallest(n, rows, col) ==
    Take(rows, PickSmallest(Column(rows, col), 1..Len(rows), n))

(***************************************************************************)
(* analyze_market_data (src/cryptoBot1.py:173-216)                         *)
(***************************************************************************)
\* Line 188: abs(percent_change_1h - percent_change_24h / 24)
volatility(row) ==
    Frac(Abs(24 * row.percent_change_1h - row.percent_change_24h), 24)

\* Lines 192-196
trend_consistency(row) ==
    IF \/ row.percent_change_1h > 0 /\ row.percent_change_24h > 0
          /\ row.percent_change_7d > 0
       \/ row.percent_change_1h < 0 /\ row.percent_change_24h < 0
          /\ row.percent_change_7d < 0
    THEN 1 ELSE 0

RECURSIVE SumCaps(_)
SumCaps(rows) == IF rows = <<>> THEN 0 ELSE Head(rows).market_cap + SumCaps(Tail(rows))

\* Line 200
total_market_cap(rows) == SumCaps(rows)

\* Line 201: the whole column is the scalar 0 when the total is not positive.
market_dominance(row, total) ==
    IF total > 0 THEN Frac(row.market_cap * 100, total) ELSE Whole(0)

\* A row with the columns analyze_market_data adds (lines 188, 192, 201).
Extended(row, total) ==
    [id |-> row.id, symbol |-> row.symbol, price |-> row.price,
     market_cap |-> row.market_cap, volume_24h |-> row.volume_24h,
     percent_change_1h |-> row.percent_change_1h,
     percent_change_24h |-> row.percent_change_24h,
     percent_change_7d |-> row.percent_change_7d,
     volume_to_market_cap |-> row.volume_to_market_cap,
     volatility |-> volatility(row),
     trend_consistency |-> trend_consistency(row),
     market_dominance |-> market_dominance(row, total)]

RECURSIVE Extend(_, _)
Extend(rows, total) ==
    IF rows = <<>> THEN <<>>
    ELSE <<Extended(Head(rows), total)>> \o Extend(Tail(rows), total)

\* df after analyze_market_data.
WithColumns(rows) == Extend(rows, total_market_cap(rows))

Consistent(row) == row.trend_consistency = 1

\* [['symbol', <column>]].to_dict('records'): the symbol and the metric.
RECURSIVE Records(_, _)
Records(rows, col) ==
    IF rows = <<>> THEN <<>>
    ELSE <<[symbol |-> Head(rows).symbol, value |-> Cell(Head(rows), col)]>>
         \o Records(Tail(rows), col)

\* Line 181
top_gainers(rows) == nlargest(TOP_K, rows, "percent_change_24h")

\* df.nlargest where line 182 has df.nsmallest.
top_losers_Largest(rows) == nlargest(TOP_K, rows, "percent_change_24h")

\* Line 182
top_losers(rows) == nsmallest(TOP_K, rows, "percent_change_24h")

\* The six views (lines 181-211), over the rows with their added columns.
analysis_of(rows) ==
    LET full == WithColumns(rows)
    IN  [top_gainers      |-> Records(top_gainers(full), "percent_change_24h"),
         top_losers       |-> Records(top_losers(full), "percent_change_24h"),
         high_liquidity   |-> Records(nlargest(TOP_K, full, "volume_to_market_cap"),
                                      "volume_to_market_cap"),
         high_volatility  |-> Records(nlargest(TOP_K, full, "volatility"),
                                      "volatility"),
         strong_trends    |-> Records(nlargest(TOP_K, SelectSeq(full, Consistent),
                                               "market_cap"), "trend"),
         market_dominance |-> Records(nlargest(TOP_K, full, "market_dominance"),
                                      "market_dominance")]

\* The order in which the dict of line 204 is iterated.
ViewNames == <<"top_gainers", "top_losers", "high_liquidity", "high_volatility",
               "strong_trends", "market_dominance">>

(***************************************************************************)
(* The store: tables crypto_data and analysis_results (lines 45-81)        *)
(***************************************************************************)
\* PRIMARY KEY (id, timestamp)
QuoteKey(row) == <<row.id, row.timestamp>>

\* PRIMARY KEY (timestamp, analysis_type, coin_symbol)
AnalysisKey(row) == <<row.timestamp, row.analysis_type, row.coin_symbol>>

\* The tuple of lines 116-127.
QuoteRow(coin, ts) ==
    [id |-> coin.id, symbol |-> coin.symbol, price |-> coin.price,
     market_cap |-> coin.market_cap, volume_24h |-> coin.volume_24h,
     percent_change_1h |-> coin.percent_change_1h,
     percent_change_24h |-> coin.percent_change_24h,
     percent_change_7d |-> coin.percent_change_7d, timestamp |-> ts]

\* INSERT OR REPLACE: a row of the same key is overwritten.
InsertQuote_Replace(table, row) ==
    [rows     |-> {r \in table : QuoteKey(r) # QuoteKey(row)} \cup {row},
     rejected |-> FALSE]

\* INSERT INTO crypto_data (line 114): rejected (IntegrityError) when the key
\* is already in the table, which then stays as it is.
InsertQuote(table, row) ==
    IF \E r \in table : QuoteKey(r) = QuoteKey(row)
    THEN [rows |-> table, rejected |-> TRUE]
    ELSE [rows |-> table \cup {row}, rejected |-> FALSE]

(***************************************************************************)
(* save_data_to_db (src/cryptoBot1.py:103-133)                             *)
(*                                                                         *)
(* The loop of lines 112-129 over the assets from position i, on the       *)
(* connection's view `table` of crypto_data.  A failed insert is logged    *)
(* (line 129) and the loop goes on; for an asset without a symbol the log  *)
(* line itself raises KeyError, which leaves the function before commit.   *)
(***************************************************************************)
RECURSIVE SaveLoop(_, _, _, _)
SaveLoop(coins, i, ts, acc) ==
    IF i > Len(coins) THEN acc
    ELSE LET coin == coins[i]
         IN  IF coin.shape = "no_symbol"
             THEN [acc EXCEPT !.raised = TRUE]
             ELSE IF coin.shape # "ok"
             THEN SaveLoop(coins, i + 1, ts,
                           [acc EXCEPT !.log = Append(@, "save_coin")])
             ELSE LET ins == InsertQuote(acc.table, QuoteRow(coin, ts))
                  IN  SaveLoop(coins, i + 1, ts,
                               [table      |-> ins.rows,
                                log        |-> IF ins.rejected
                                               THEN Append(acc.log, "save_coin")
                                               ELSE acc.log,
                                collisions |-> acc.collisions +
                                               (IF ins.rejected THEN 1 ELSE 0),
                                raised     |-> FALSE])

\* The outcome of save_data_to_db(coins) at time ts: the table after commit
\* (unchanged when the function raised: nothing was committed), the error
\* records, the number of key collisions and whether an exception left it.
save_data_to_db(coins, ts, table) ==
    LET out == SaveLoop(coins, 1, ts,
                        [table |-> table, log |-> <<>>, collisions |-> 0,
                         raised |-> FALSE])
    IN  [table      |-> IF out.raised THEN table ELSE out.table,
         log        |-> out.log,
         collisions |-> out.collisions,
         raised     |-> out.raised]

(***************************************************************************)
(* save_analysis_results (src/cryptoBot1.py:218-242)                       *)
(***************************************************************************)
\* The tuples of lines 231-237 for one view.
RECURSIVE ViewRows(_, _, _)
ViewRows(name, records, ts) ==
    IF records = <<>> THEN <<>>
    ELSE <<[timestamp |-> ts, analysis_type |-> name,
            coin_symbol |-> Head(records).symbol, result |-> Head(records),
            alert_sent |-> 0]>>
         \o ViewRows(name, Tail(records), ts)

\* The rows of lines 225-237, in insertion order.
RECURSIVE AnalysisRows(_, _, _)
AnalysisRows(results, ts, v) ==
    IF v > Len(ViewNames) THEN <<>>
    ELSE ViewRows(ViewNames[v], results[ViewNames[v]], ts)
         \o AnalysisRows(results, ts, v + 1)

\* All inserts are in one try: the first rejected insert skips the commit
\* (line 238) and the connection is closed, which rolls the batch back.
save_analysis_results(results, ts, table) ==
    LET rows      == AnalysisRows(results, ts, 1)
        collision == \/ \E i \in 1..Len(rows) : \E r \in table :
                            AnalysisKey(r) = AnalysisKey(rows[i])
                     \/ \E i, j \in 1..Len(rows) :
                            i < j /\ AnalysisKey(rows[i]) = AnalysisKey(rows[j])
    IN  [table      |-> IF collision THEN table
                        ELSE table \cup {rows[i] : i \in 1..Len(rows)},
         log        |-> IF collision THEN <<"save_analysis">> ELSE <<>>,
         collisions |-> IF collision THEN 1 ELSE 0,
         raised     |-> FALSE]

(***************************************************************************)
(* Inputs                                                                  *)
(***************************************************************************)
Asset(id, symbol, shape, price, cap, vol, h1, h24, d7) ==
    [id |-> id, symbol |-> symbol, shape |-> shape, price |-> price,
     market_cap |-> cap, volume_24h |-> vol, percent_change_1h |-> h1,
     percent_change_24h |-> h24, percent_change_7d |-> d7]

\* The asset objects a payload is drawn from: asset 1 as quoted at two
\* moments (the second quote after a move of more than 10% within the hour),
\* a second well-formed asset, an asset whose quote has no price and an asset
\* without a symbol.
Assets ==
    { Asset(1, "BTC", "ok", 50, 900, 90, 1, 2, 3),
      Asset(1, "BTC", "ok", 60, 1080, 300, 20, 22, 23),
      Asset(2, "ETH", "ok", 3, 300, 60, -2, -5, -1),
      Asset(3, "XRP", "no_price", 0, 100, 10, 0, 0, 0),
      Asset(4, "", "no_symbol", 1, 100, 10, 0, 0, 0) }

Payloads == UNION {[1..n -> Assets] : n \in 0..MaxCoins}

\* What requests.get gives get_crypto_data: HTTP 200 with a data array, HTTP
\* 200 with a body that has no "data", a non-200 status, or an exception.
Responses ==
    {[kind |-> "ok", body |-> p] : p \in Payloads}
    \cup {[kind |-> k, body |-> <<>>] : k \in {"no_data_key", "http_500", "timeout"}}

\* Lengths of the rendered report: below the caption limit, between the two
\* limits, and over the text limit.
ReportLens == {700, 1500, 5100}

\* Length of the joined alert lines when there is an alert.
AlertLens == {200}

\* Faults of the database file: sqlite3.connect raises ("connect"), or none.
DbFaults == {"none", "connect"}

\* datetime.now() after a sleep: the clock never runs backwards here and need
\* not have advanced since the last cycle (a clock that was set back).  The
\* readings within one cycle (lines 108, 140, 220) are taken as one value:
\* they name rows of different tables and files, never compared with each other.
Readings == {t \in now..(now + 1) : t <= MaxClock}

(***************************************************************************)
(* get_crypto_data (src/cryptoBot1.py:83-101)                              *)
(***************************************************************************)
get_crypto_data(resp) == IF resp.kind = "ok" THEN Some(resp.body) ELSE None

FetchLog(resp) ==
    CASE resp.kind = "ok"          -> <<>>
      [] resp.kind = "http_500"    -> <<"api">>
      [] resp.kind = "timeout"     -> <<"connection">>
      [] resp.kind = "no_data_key" -> <<"unexpected">>

\* Python truthiness of the fetched value: None and [] are both falsy.
\* "if data is None" where line 470 has "if not data".
Falsy_NoneOnly(d) == d = None

Falsy(d) == d = None \/ Val(d) = <<>>

(***************************************************************************)
(* check_for_alerts (src/cryptoBot1.py:444-464)                            *)
(***************************************************************************)
big_movers(rows) ==
    SelectSeq(rows, LAMBDA r : Abs(r.percent_change_1h) > ALERT_THRESHOLD)

(***************************************************************************)
(* The scheduler and the pipeline                                          *)
(***************************************************************************)
NoText == Text("none", 0)

\* The locals of process_crypto_data and the per-cycle records, as they are
\* when a cycle starts.
FreshCycle ==
    /\ data' = None
    /\ df' = None
    /\ analysis' = None
    /\ chart_path' = None
    /\ alerts_msg' = NoText
    /\ full_report' = NoText
    /\ outbox' = <<>>
    /\ sendResult' = None
    /\ errlog' = <<>>
    /\ phases' = <<>>
    /\ faults' = {}

Init ==
    /\ pc = "start"
    /\ firstRun = TRUE
    /\ cycle = 0
    /\ now = 1
    /\ data = None
    /\ df = None
    /\ analysis = None
    /\ chart_path = None
    /\ alerts_msg = NoText
    /\ full_report = NoText
    /\ files = {}
    /\ crypto_data = {}
    /\ analysis_results = {}
    /\ outbox = <<>>
    /\ sendResult = None
    /\ errlog = <<>>
    /\ phases = <<>>
    /\ faults = {}
    /\ waited = <<>>

locals == <<data, df, analysis, chart_path, alerts_msg, full_report>>

\* The statements of process_crypto_data with convert_to_dataframe and
\* save_data_to_db exchanged.
PipelineOrder_StoreAfterAnalysis ==
    <<"fetch", "archive", "convert", "analyze", "store", "chart", "render",
      "alerts", "report">>

\* The statements of process_crypto_data in program order (lines 469, 475,
\* 478, 481, 484, 487, 490-496, 499, 506).
PipelineOrder ==
    <<"fetch", "archive", "store", "convert", "analyze", "chart", "render",
      "alerts", "report">>

\* The statement that follows `step`; after the last one the function returns.
Following(step) ==
    LET i == CHOOSE k \in 1..Len(PipelineOrder) : PipelineOrder[k] = step
    IN  IF i = Len(PipelineOrder) THEN "returned" ELSE PipelineOrder[i + 1]

store == <<files, crypto_data, analysis_results>>

\* Where control goes when an exception leaves process_crypto_data: out of
\* main() from the call of line 518, into the handler of lines 529-532 from
\* the call of line 525.
Escapes ==
    /\ pc' = IF firstRun THEN "crashed" ELSE "backoff"
    /\ errlog' = IF firstRun THEN errlog ELSE Append(errlog, "main_loop")

\* main(), lines 512-518: initialize_database(), then the first cycle.
Start ==
    /\ pc = "start"
    /\ pc' = PipelineOrder[1]
    /\ cycle' = 1
    /\ UNCHANGED <<waited, firstRun, now, locals, store, outbox, sendResult,
                   errlog, phases, faults>>

\* process_crypto_data, lines 469-472.
StartOfCycle(resp) ==
    /\ pc = "fetch"
    /\ data' = get_crypto_data(resp)
    /\ errlog' = FetchLog(resp) \o
                 (IF Falsy(get_crypto_data(resp)) THEN <<"no_data">> ELSE <<>>)
    /\ faults' = IF resp.kind = "ok" THEN {} ELSE {"fetch"}
    /\ phases' = <<"fetch">>
    /\ pc' = IF Falsy(get_crypto_data(resp)) THEN "returned" ELSE Following("fetch")
    /\ UNCHANGED <<waited, firstRun, cycle, now, df, analysis, chart_path, alerts_msg,
                   full_report, store, outbox, sendResult>>

Fetch == \E resp \in Responses : StartOfCycle(resp)

\* save_raw_data (lines 135-146), called at line 475.  ioFails: open() or
\* json.dump() raises; nothing in the function or in its caller catches it.
save_raw_data(ts, ioFails) ==
    /\ pc = "archive"
    /\ IF ioFails
       THEN /\ Escapes
            /\ faults' = faults \cup {"archive_write"}
            /\ UNCHANGED <<files, phases>>
       ELSE /\ files' = files \cup {ts}
            /\ phases' = Append(phases, "archive")
            /\ pc' = Following("archive")
            /\ UNCHANGED <<errlog, faults>>
    /\ UNCHANGED <<waited, firstRun, cycle, now, locals, crypto_data, analysis_results,
                   outbox, sendResult>>

Archive == \E ioFails \in BOOLEAN : save_raw_data(now, ioFails)

\* save_data_to_db, called at line 478.  dbFault: "connect" (sqlite3.connect
\* raises, outside any try) or "none".
StoreQuotes(ts, dbFault) ==
    /\ pc = "store"
    /\ IF dbFault = "connect"
       THEN /\ Escapes
            /\ faults' = faults \cup {"db_connect"}
            /\ UNCHANGED <<crypto_data, phases>>
       ELSE LET out == save_data_to_db(Val(data), ts, crypto_data)
            IN  /\ crypto_data' = out.table
                /\ faults' = faults
                       \cup (IF out.collisions > 0 THEN {"quote_collision"} ELSE {})
                /\ IF out.raised
                   THEN /\ pc' = IF firstRun THEN "crashed" ELSE "backoff"
                        /\ errlog' = errlog \o out.log \o
                               (IF firstRun THEN <<>> ELSE <<"main_loop">>)
                        /\ UNCHANGED phases
                   ELSE /\ pc' = Following("store")
                        /\ errlog' = errlog \o out.log
                        /\ phases' = Append(phases, "store")
    /\ UNCHANGED <<waited, firstRun, cycle, now, locals, files, analysis_results, outbox,
                   sendResult>>

Store == \E dbFault \in DbFaults : StoreQuotes(now, dbFault)

\* convert_to_dataframe, called at line 481.
Convert ==
    /\ pc = "convert"
    /\ IF ConvertRaises(Val(data))
       THEN /\ Escapes
            /\ UNCHANGED <<df, phases>>
       ELSE /\ df' = Some(convert_to_dataframe(Val(data)))
            /\ phases' = Append(phases, "convert")
            /\ pc' = Following("convert")
            /\ UNCHANGED errlog
    /\ UNCHANGED <<waited, firstRun, cycle, now, data, analysis, chart_path, alerts_msg,
                   full_report, store, outbox, sendResult, faults>>

\* analyze_market_data, called at line 484: the views, the columns added to
\* df, and save_analysis_results (line 214).
analyze_market_data(ts, dbFault) ==
    /\ pc = "analyze"
    /\ df' = Some(WithColumns(Val(df)))
    /\ IF dbFault = "connect"
       THEN /\ Escapes
            /\ faults' = faults \cup {"db_connect"}
            /\ UNCHANGED <<analysis, analysis_results, phases>>
       ELSE LET results == analysis_of(Val(df))
                out     == save_analysis_results(results, ts, analysis_results)
            IN  /\ analysis' = Some(results)
                /\ analysis_results' = out.table
                /\ errlog' = errlog \o out.log
                /\ faults' = faults
                       \cup (IF out.collisions > 0 THEN {"analysis_collision"} ELSE {})
                /\ phases' = Append(phases, "analyze")
                /\ pc' = Following("analyze")
    /\ UNCHANGED <<waited, firstRun, cycle, now, data, chart_path, alerts_msg,
                   full_report, files, crypto_data, outbox, sendResult>>

Analyze == \E dbFault \in DbFaults : analyze_market_data(now, dbFault)

\* generate_charts (lines 244-292), called at line 487: the path of the
\* saved image, or None when plotting raised (caught at line 290).
generate_charts(plotFails) ==
    /\ pc = "chart"
    /\ chart_path' = IF plotFails THEN None ELSE Some("exists")
    /\ errlog' = IF plotFails THEN Append(errlog, "chart") ELSE errlog
    /\ faults' = IF plotFails THEN faults \cup {"chart"} ELSE faults
    /\ phases' = Append(phases, "chart")
    /\ pc' = Following("chart")
    /\ UNCHANGED <<waited, firstRun, cycle, now, data, df, analysis, alerts_msg,
                   full_report, store, outbox, sendResult>>

Chart == \E plotFails \in BOOLEAN : generate_charts(plotFails)

\* Lines 490-496 and 503: the three text blocks, the alert lines and the
\* combined report.  Their lengths depend on the names and numbers printed.
RenderTexts(reportLen, alertLen) ==
    /\ pc = "render"
    /\ full_report' = Text("report", reportLen)
    /\ alerts_msg' = IF big_movers(Val(df)) = <<>> THEN Text("alerts", 0)
                     ELSE Text("alerts", alertLen)
    /\ phases' = Append(phases, "render")
    /\ pc' = Following("render")
    /\ UNCHANGED <<waited, firstRun, cycle, now, data, df, analysis, chart_path, store,
                   outbox, sendResult, errlog, faults>>

Render == \E reportLen \in ReportLens : \E alertLen \in AlertLens :
              RenderTexts(reportLen, alertLen)

\* Line 441: the call that meets the exception logs it, be it the outer
\* call or the nested one of line 417.
SendLog(out) ==
    IF \E i \in 1..Len(out.calls) : out.calls[i].raised THEN <<"telegram">> ELSE <<>>

SendFaults(out) ==
    IF \E i \in 1..Len(out.calls) : out.calls[i].raised THEN {"transport"} ELSE {}

\* Lines 499-500.
NotifyAlerts(raiseAt) ==
    /\ pc = "alerts"
    /\ IF TextLen(alerts_msg) > 0
       THEN LET out == send_message_to_telegram(alerts_msg, None, raiseAt)
            IN  /\ outbox' = outbox \o out.calls
                /\ sendResult' = Some(out.ok)
                /\ errlog' = errlog \o SendLog(out)
                /\ faults' = faults \cup SendFaults(out)
       ELSE UNCHANGED <<outbox, sendResult, errlog, faults>>
    /\ phases' = Append(phases, "alerts")
    /\ pc' = Following("alerts")
    /\ UNCHANGED <<waited, firstRun, cycle, now, locals, store>>

SendAlerts == \E raiseAt \in 0..MaxRaiseAt : NotifyAlerts(raiseAt)

\* Lines 506-508.
NotifyReport(raiseAt) ==
    /\ pc = "report"
    /\ LET out == send_message_to_telegram(full_report, chart_path, raiseAt)
       IN  /\ outbox' = outbox \o out.calls
           /\ sendResult' = Some(out.ok)
           /\ errlog' = errlog \o SendLog(out)
           /\ faults' = faults \cup SendFaults(out)
    /\ phases' = Append(phases, "report")
    /\ pc' = Following("report")
    /\ UNCHANGED <<waited, firstRun, cycle, now, locals, store>>

SendReport == \E raiseAt \in 0..MaxRaiseAt : NotifyReport(raiseAt)

\* process_crypto_data has returned: its locals are gone, main() goes to
\* the top of its loop and into time.sleep(FETCH_INTERVAL) (lines 521-524).
Return ==
    /\ pc = "returned"
    /\ pc' = "sleep"
    /\ firstRun' = FALSE
    /\ waited' = <<>>
    /\ FreshCycle
    /\ UNCHANGED <<cycle, now, store>>

\* Lines 524-525: the sleep is over, at clock reading t, and the next cycle
\* starts.
WakeUp(t) ==
    /\ pc = "sleep"
    /\ pc' = PipelineOrder[1]
    /\ cycle' = cycle + 1
    /\ now' = t
    /\ waited' = Append(waited, FETCH_INTERVAL)
    /\ UNCHANGED <<firstRun, locals, store, outbox, sendResult, errlog,
                   phases, faults>>

Sleep == \E t \in Readings : cycle < MaxCycles /\ WakeUp(t)

\* Line 532: time.sleep(60) in the handler is over; back to the top of the loop.
Backoff ==
    /\ pc = "backoff"
    /\ pc' = "sleep"
    /\ waited' = <<BACKOFF>>
    /\ FreshCycle
    /\ UNCHANGED <<firstRun, cycle, now, store>>

\* KeyboardInterrupt: caught at line 526 inside the loop, uncaught during the
\* first cycle and during the back-off sleep.  Either way main() is left and
\* only the store remains.
Interrupt ==
    /\ pc \notin {"start", "stopped", "crashed"}
    /\ pc' = "stopped"
    /\ FreshCycle
    /\ UNCHANGED <<waited, firstRun, cycle, now, store>>

Next ==
    \/ Start
    \/ Fetch
    \/ Archive
    \/ Store
    \/ Convert
    \/ Analyze
    \/ Chart
    \/ Render
    \/ SendAlerts
    \/ SendReport
    \/ Return
    \/ Sleep
    \/ Backoff
    \/ Interrupt

Spec == Init /\ [][Next]_vars

(***************************************************************************)
(* SpecSend: send_message_to_telegram on its own.  The report of line 506  *)
(* is any text of a length around the two limits, the chart path is None,  *)
(* a path that does not exist or a path that exists, and any one of the    *)
(* transport calls may raise.                                              *)
(***************************************************************************)
Cuts ==
    {0, CAPTION_LIMIT}
    \cup {k * TEXT_LIMIT : k \in 1..MaxChunks}
    \cup {CAPTION_LIMIT + k * TEXT_LIMIT : k \in 1..MaxChunks}

SendLens ==
    {n \in UNION {{c - 1, c, c + 1} : c \in Cuts} \cup {1500, 9000} :
        n >= 0 /\ n <= CAPTION_LIMIT + MaxChunks * TEXT_LIMIT}

PhotoPaths == {None, Some("missing"), Some("exists")}

InitSend ==
    /\ pc = "report"
    /\ firstRun = TRUE
    /\ cycle = 1
    /\ now = 1
    /\ data = None
    /\ df = None
    /\ analysis = None
    /\ chart_path \in PhotoPaths
    /\ alerts_msg = NoText
    /\ full_report \in {Text("report", n) : n \in SendLens}
    /\ files = {}
    /\ crypto_data = {}
    /\ analysis_results = {}
    /\ outbox = <<>>
    /\ sendResult = None
    /\ errlog = <<>>
    /\ phases = <<>>
    /\ faults = {}
    /\ waited = <<>>

NextSend == \E raiseAt \in 0..(MaxChunks + 2) : NotifyReport(raiseAt)

SpecSend == InitSend /\ [][NextSend]_vars

(***************************************************************************)
(* SpecAnalyze: analyze_market_data on its own, on every snapshot of up to *)
(* MaxAssets assets whose 24h changes are drawn from PctValues.            *)
(***************************************************************************)
PctValues == {-3, 4}

SnapshotRow(i, pct) ==
    coin_data(Asset(i, ToString(i), "ok", 10, 100 * i, 10 * i, 1, pct, 1))

Snapshots ==
    UNION {{[i \in 1..n |-> SnapshotRow(i, f[i])] : f \in [1..n -> PctValues]} :
              n \in 1..MaxAssets}

InitAnalyze ==
    /\ pc = "analyze"
    /\ firstRun = TRUE
    /\ cycle = 1
    /\ now = 1
    /\ data = None
    /\ df \in {Some(rows) : rows \in Snapshots}
    /\ analysis = None
    /\ chart_path = None
    /\ alerts_msg = NoText
    /\ full_report = NoText
    /\ files = {}
    /\ crypto_data = {}
    /\ analysis_results = {}
    /\ outbox = <<>>
    /\ sendResult = None
    /\ errlog = <<>>
    /\ phases = <<>>
    /\ faults = {}
    /\ waited = <<>>

NextAnalyze == Analyze

SpecAnalyze == InitAnalyze /\ [][NextAnalyze]_vars

(***************************************************************************)
(* SpecLoop: the scheduler of main() over up to MaxAttempts calls of       *)
(* process_crypto_data, each of which fails its fetch, returns normally or *)
(* lets an exception escape (an asset without a symbol, an archive file    *)
(* that cannot be written, a database that cannot be opened).              *)
(***************************************************************************)
LoopResponses ==
    {[kind |-> "http_500", body |-> <<>>]}
    \cup {[kind |-> "ok", body |-> <<a>>] :
              a \in {x \in Assets : x.price = 50 \/ x.shape = "no_symbol"}}

NextLoop ==
    \/ Start
    \/ \E resp \in LoopResponses : StartOfCycle(resp)
    \/ \E ioFails \in BOOLEAN : save_raw_data(now, ioFails)
    \/ \E dbFault \in DbFaults : StoreQuotes(now, dbFault)
    \/ Convert
    \/ analyze_market_data(now, "none")
    \/ generate_charts(FALSE)
    \/ RenderTexts(700, 200)
    \/ NotifyAlerts(0)
    \/ NotifyReport(0)
    \/ Return
    \/ \E t \in Readings : cycle < MaxAttempts /\ WakeUp(t)
    \/ Backoff
    \/ Interrupt

SpecLoop == Init /\ [][NextLoop]_vars

(***************************************************************************)
(* SpecRatios: convert_to_dataframe and analyze_market_data on payloads of *)
(* up to MaxRatioCoins well-formed assets whose market_cap and volume_24h  *)
(* are zero or positive.                                                   *)
(***************************************************************************)
CapValues == {0, 5}

VolumeValues == {0, 10}

RatioAsset(i, cap, vol) == Asset(i, ToString(i), "ok", 10, cap, vol, 1, 2, 1)

RatioPayloads ==
    UNION {{[i \in 1..n |-> RatioAsset(i, c[i], v[i])] :
                c \in [1..n -> CapValues], v \in [1..n -> VolumeValues]} :
              n \in 1..MaxRatioCoins}

InitRatios ==
    /\ pc = "convert"
    /\ firstRun = TRUE
    /\ cycle = 1
    /\ now = 1
    /\ data \in {Some(p) : p \in RatioPayloads}
    /\ df = None
    /\ analysis = None
    /\ chart_path = None
    /\ alerts_msg = NoText
    /\ full_report = NoText
    /\ files = {}
    /\ crypto_data = {}
    /\ analysis_results = {}
    /\ outbox = <<>>
    /\ sendResult = None
    /\ errlog = <<>>
    /\ phases = <<>>
    /\ faults = {}
    /\ waited = <<>>

NextRatios ==
    \/ Convert
    \/ analyze_market_data(now, "none")

SpecRatios == InitRatios /\ [][NextRatios]_vars

(***************************************************************************)
(* Properties                                                              *)
(***************************************************************************)
CycleOver == pc \in {"returned", "backoff", "crashed"}

FetchFailed == "fetch" \in faults

NoneRaised == \A i \in 1..Len(outbox) : ~outbox[i].raised

ReportAttempted == \E i \in 1..Len(outbox) : outbox[i].body.src = "report"

Payload == Val(data)

AllWellFormed == \A i \in 1..Len(Payload) : WellFormed(Payload[i])

\* The calls of the outbox from position a on carry the characters
\* from .. to - 1 of the report, in order, as text messages of at most
\* TEXT_LIMIT characters.
CarriesInOrder(a, from, to) ==
    /\ a <= Len(outbox)
    /\ outbox[a].body.lo = from
    /\ outbox[Len(outbox)].body.hi = to
    /\ \A i \in a..Len(outbox) :
        /\ outbox[i].api = "sendMessage"
        /\ outbox[i].body.src = "report"
        /\ TextLen(outbox[i].body) <= TEXT_LIMIT
        /\ i < Len(outbox) => outbox[i].body.hi = outbox[i + 1].body.lo

ExpectedMessages(n) == IF n > TEXT_LIMIT THEN CeilDiv(n, TEXT_LIMIT) ELSE 1

WithPhoto == chart_path # None /\ Val(chart_path) = "exists"

SendDone == pc = "returned"

\* C1 (as claimed): a cycle whose fetch failed leaves the store as it was,
\* attempts exactly one (warning) notification and ends normally, so that the
\* loop goes on to its next cycle.
C1_FetchFailureWarnsOnce ==
    (CycleOver /\ FetchFailed) =>
        /\ pc = "returned"
        /\ phases = <<"fetch">>
        /\ Len(outbox) = 1

\* C2 (as claimed): no exception raised inside a cycle, the first cycle
\* included, ends the process; main() is left on an interrupt only.
C2_OnlyInterruptStops == pc # "crashed"

\* C3: a text-only send whose transport calls all succeed emits
\* ceil(len/4000) messages when the text is longer than 4000 characters and
\* one message otherwise, each of at most 4000 characters, which carry the
\* text in order and without gap or overlap.
C3_TextChunking ==
    (SendDone /\ ~WithPhoto /\ NoneRaised) =>
        /\ Len(outbox) = ExpectedMessages(TextLen(full_report))
        /\ CarriesInOrder(1, 0, TextLen(full_report))
        /\ sendResult = Some(TRUE)

C3_Witness ==
    /\ SendDone /\ ~WithPhoto /\ NoneRaised
    /\ TextLen(full_report) = 9000
    /\ Len(outbox) = 3

\* C4: a send with an existing image makes exactly one image call, first,
\* captioned with the first min(L, 1024) characters; when its transport calls
\* all succeed, the characters from 1024 on follow as text messages of at
\* most 4000 characters, in order (one message when at most 4000 remain),
\* and nothing follows when L <= 1024.
C4_CaptionAndFollowUp ==
    (SendDone /\ WithPhoto) =>
        LET L == TextLen(full_report)
        IN  /\ Len(outbox) >= 1
            /\ outbox[1].api = "sendPhoto"
            /\ outbox[1].body = [src |-> "report", lo |-> 0,
                                 hi |-> Min(L, CAPTION_LIMIT)]
            /\ \A i \in 2..Len(outbox) : outbox[i].api = "sendMessage"
            /\ NoneRaised =>
                IF L <= CAPTION_LIMIT
                THEN Len(outbox) = 1
                ELSE /\ Len(outbox) = 1 + ExpectedMessages(L - CAPTION_LIMIT)
                     /\ CarriesInOrder(2, CAPTION_LIMIT, L)

C4_Witness ==
    /\ SendDone /\ WithPhoto /\ NoneRaised
    /\ TextLen(full_report) = 1500
    /\ Len(outbox) = 2
    /\ TextLen(outbox[1].body) = 1024
    /\ TextLen(outbox[2].body) = 476

\* C5 (as claimed): send returns True exactly when none of the transport
\* calls made for it raised.
C5_ResultIsTransportOutcome ==
    SendDone => (sendResult = Some(TRUE) <=> NoneRaised)

StorageFailed ==
    faults \cap {"archive_write", "quote_collision", "analysis_collision"} # {}

\* C6 (as claimed): in a cycle whose fetch succeeded with well-formed assets,
\* a failure to write the archive file or a rejected insert does not keep the
\* cycle from attempting its report notification.
C6_StorageFailureStillReports ==
    (CycleOver /\ ~Falsy(data) /\ AllWellFormed /\ StorageFailed
        /\ "db_connect" \notin faults) => ReportAttempted

KeysUnique ==
    /\ \A r1, r2 \in crypto_data : QuoteKey(r1) = QuoteKey(r2) => r1 = r2
    /\ \A r1, r2 \in analysis_results : AnalysisKey(r1) = AnalysisKey(r2) => r1 = r2

Completed(step) == \E i \in 1..Len(phases) : phases[i] = step

\* C7 (as claimed): keys stay unique, and an insert whose key exists is
\* surfaced to the caller: save_data_to_db, or analyze_market_data on behalf of
\* save_analysis_results, does not return normally.
C7_CollisionSurfaced ==
    /\ KeysUnique
    /\ "quote_collision" \in faults => ~Completed("store")
    /\ "analysis_collision" \in faults => ~Completed("analyze")

HasNoSymbol == \E i \in 1..Len(Payload) : Payload[i].shape = "no_symbol"

\* C7 (amended): no step removes or changes a row of either table and keys
\* stay unique; an insert whose key exists is rejected, logged inside
\* save_data_to_db / save_analysis_results and not raised to the caller (in
\* save_analysis_results it drops the whole batch of that call).
C7_AppendOnlyCollisionLogged ==
    [][ /\ crypto_data \subseteq crypto_data'
        /\ analysis_results \subseteq analysis_results'
        /\ KeysUnique'
        /\ ("quote_collision" \in faults' /\ "quote_collision" \notin faults) =>
              /\ \E i \in 1..Len(errlog') : errlog'[i] = "save_coin"
              /\ pc' = Following("store") \/ HasNoSymbol
        /\ ("analysis_collision" \in faults' /\ "analysis_collision" \notin faults) =>
              /\ \E i \in 1..Len(errlog') : errlog'[i] = "save_analysis"
              /\ pc' = Following("analyze")
              /\ analysis_results' = analysis_results
      ]_vars

\* A quote of the payload was rejected and the row that held its key stays,
\* with another price.
C7_Witness ==
    /\ "quote_collision" \in faults
    /\ Completed("store")
    /\ \E i \in 1..Len(Payload) : \E r \in crypto_data :
          /\ WellFormed(Payload[i])
          /\ QuoteKey(r) = <<Payload[i].id, now>>
          /\ r.price # Payload[i].price

HasWellFormed == \E i \in 1..Len(Payload) : WellFormed(Payload[i])

\* C8 (as claimed): a payload with a malformed asset next to a well-formed
\* one, in a cycle without storage faults, still gets its report attempted.
C8_MalformedAssetSkipped ==
    (CycleOver /\ ~Falsy(data) /\ ~AllWellFormed /\ HasWellFormed
        /\ faults \cap {"archive_write", "db_connect"} = {}) => ReportAttempted

Position(step) == CHOOSE i \in 1..Len(phases) : phases[i] = step

Precedes(a, b) == Completed(b) => (Completed(a) /\ Position(a) < Position(b))

InOrder ==
    /\ Precedes("store", "analyze")
    /\ Precedes("analyze", "render")
    /\ Precedes("render", "report")
    /\ pc = "analyze" => Completed("store")
    /\ pc = "render" => Completed("analyze")
    /\ pc = "report" => Completed("render")

\* C10: within a cycle the store append is complete before the analysis
\* starts, the analysis before rendering and rendering before the report
\* notification; and a cycle starts only when no cycle is in progress (main()
\* is at its start or in its sleep).
C10_TotalOrder ==
    [][ /\ InOrder'
        /\ cycle' # cycle => (pc \in {"start", "sleep"} /\ cycle' = cycle + 1)
        /\ pc \in {"archive", "store", "convert", "analyze", "chart", "render",
                   "alerts", "report"} => cycle' = cycle
      ]_vars

C10_Witness ==
    /\ cycle = 2
    /\ pc = "returned"
    /\ phases = <<"fetch", "archive", "store", "convert", "analyze", "chart",
                  "render", "alerts", "report">>

Overlap ==
    \E i \in 1..Len(Val(analysis).top_gainers) :
        \E j \in 1..Len(Val(analysis).top_losers) :
            Val(analysis).top_gainers[i].symbol = Val(analysis).top_losers[j].symbol

Analyzed == pc = Following("analyze")

\* C9 (as claimed): the two views have min(5, n) entries each, and no asset
\* in common when the snapshot has more than 10 assets.
C9_DisjointAboveTen ==
    Analyzed =>
        /\ Len(Val(analysis).top_gainers) = Min(5, Len(Val(df)))
        /\ Len(Val(analysis).top_losers) = Min(5, Len(Val(df)))
        /\ Len(Val(df)) > 10 => ~Overlap

Selected(view) == {view[i].symbol : i \in 1..Len(view)}

\* C9 (amended): the two views have min(5, n) entries each, the gainers are
\* rows of largest and the losers rows of smallest percent_change_24h, and
\* with more than 10 assets they have an asset in common only when
\* the 5th largest and the 5th smallest value are equal (a tie that spans
\* both views).
C9_DisjointUnlessTied ==
    Analyzed =>
        LET rows    == Val(df)
            gainers == Val(analysis).top_gainers
            losers  == Val(analysis).top_losers
        IN  /\ Len(gainers) = Min(5, Len(rows))
            /\ Len(losers) = Min(5, Len(rows))
            /\ \A i \in 1..Len(rows) : \A k \in 1..Len(gainers) :
                  rows[i].symbol \notin Selected(gainers) =>
                      rows[i].percent_change_24h <= gainers[k].value[1]
            /\ \A i \in 1..Len(rows) : \A k \in 1..Len(losers) :
                  rows[i].symbol \notin Selected(losers) =>
                      rows[i].percent_change_24h >= losers[k].value[1]
            /\ (Len(rows) > 10 /\ Overlap) => gainers[5].value = losers[5].value

C9_Witness ==
    /\ Analyzed
    /\ Len(Val(df)) = 11
    /\ ~Overlap
    /\ \E i, j \in 1..11 :
          Val(df)[i].percent_change_24h # Val(df)[j].percent_change_24h

InCycle == \E k \in 1..Len(PipelineOrder) : pc = PipelineOrder[k]

Logged(what) == \E i \in 1..Len(errlog) : errlog[i] = what

\* C11 (as claimed): the first cycle starts with no sleep before it, a cycle
\* that follows a cycle that returned starts after one sleep of
\* FETCH_INTERVAL, an exception that escapes a cycle is logged by the loop,
\* and the cycle attempt that follows it starts after the back-off of 60
\* seconds alone, with no sleep of FETCH_INTERVAL added to it.
C11_RetryAfterBackoffOnly ==
    /\ (InCycle /\ cycle = 1) => waited = <<>>
    /\ (InCycle /\ cycle > 1) => waited \in {<<FETCH_INTERVAL>>, <<BACKOFF>>}
    /\ pc = "backoff" => Logged("main_loop")

Raised == pc \in {"crashed", "backoff"}

\* C12: no division by a zero denominator raises, every asset whose
\* market_cap is 0 has volume_to_market_cap exactly 0, and when the
\* market_cap of a snapshot sums to 0 every market_dominance, in the
\* DataFrame and in the reported view, is exactly 0.
C12_ZeroDenominatorYieldsZero ==
    /\ ~Raised
    /\ df # None =>
          \A i \in 1..Len(Val(df)) :
              Val(df)[i].market_cap = 0 => Val(df)[i].volume_to_market_cap = Whole(0)
    /\ (analysis # None /\ total_market_cap(Val(df)) = 0) =>
          /\ \A i \in 1..Len(Val(df)) : Val(df)[i].market_dominance = Whole(0)
          /\ \A k \in 1..Len(Val(analysis).market_dominance) :
                 Val(analysis).market_dominance[k].value = Whole(0)

C12_Witness ==
    /\ analysis # None
    /\ Len(Val(df)) >= 2
    /\ total_market_cap(Val(df)) = 0
    /\ \E i \in 1..Len(Val(df)) : Val(df)[i].volume_24h > 0
    /\ Len(Val(analysis).market_dominance) >= 2

\* C13: in a text-only send the transport calls made are, in order and once
\* each, the calls for the first chunks of the message; a call that raised is
\* the last call made, and the send then returns False.
C13_AttemptedChunksArePrefix ==
    (SendDone /\ ~WithPhoto) =>
        LET L == TextLen(full_report)
            j == Len(outbox)
        IN  /\ j >= 1
            /\ j <= ExpectedMessages(L)
            /\ \A i \in 1..j :
                  /\ outbox[i].api = "sendMessage"
                  /\ outbox[i].body =
                         [src |-> "report",
                          lo  |-> Min((i - 1) * TEXT_LIMIT, L),
                          hi  |-> IF L > TEXT_LIMIT THEN Min(i * TEXT_LIMIT, L) ELSE L]
                  /\ outbox[i].raised => i = j
            /\ outbox[j].raised => sendResult = Some(FALSE)
            /\ j < ExpectedMessages(L) => outbox[j].raised

C13_Witness ==
    /\ SendDone /\ ~WithPhoto
    /\ TextLen(full_report) = 9000
    /\ Len(outbox) = 2
    /\ outbox[2].raised
    /\ ~outbox[1].raised
    /\ sendResult = Some(FALSE)

\* C14: a fetch that returns an empty data array ends the cycle as a failed
\* fetch does: process_crypto_data returns at once, having written nothing to
\* the archive, to the quote table or to the analysis table and having sent
\* nothing, and main() goes on to its sleep before the next cycle.
C14_EmptyPayloadSkipsCycle ==
    [][ /\ (pc = "fetch" /\ pc' # "stopped"
            /\ (data' = Some(<<>>) \/ data' = None)) =>
              /\ pc' = "returned"
              /\ UNCHANGED store
              /\ outbox' = <<>>
              /\ phases' = <<"fetch">>
              /\ errlog'[Len(errlog')] = "no_data"
        /\ (pc = "returned" /\ data = Some(<<>>)) =>
              /\ pc' \in {"sleep", "stopped"}
              /\ UNCHANGED store
      ]_vars

C14_Witness ==
    /\ pc = "returned"
    /\ data = Some(<<>>)
    /\ cycle = 2
    /\ crypto_data # {}
    /\ phases = <<"fetch">>
    /\ outbox = <<>>

====
